---------------------------- MODULE Spec2Model ----------------------------
(***************************************************************************)
(* Model of tools/check_api_ui_usage.py: the route extractor               *)
(* (parse_endpoints), the usage scanner (iter_ui_files, scan_usage) and    *)
(* the reporter (main).  Texts are sequences of one-character strings.     *)
(* The module needs Python >= 3.7 (from __future__ import annotations),    *)
(* so re.escape is the 3.7+ one: it escapes only the regex special         *)
(* characters, and ':' and '/' are not among them.                         *)
(***************************************************************************)
EXTENDS Integers, Sequences, FiniteSets, TLC

(***************************************************************************)
(* Bounds of the model.                                                    *)
(***************************************************************************)
MaxTokens == 3     \* lexemes of main.go in the extractor-centred inputs
MaxFiles == 2      \* directory entries under the UI roots, both roots together

(***************************************************************************)
(* Characters and small sequence helpers.                                  *)
(***************************************************************************)
BS == "\\"

Whitespace == {" ", "\t", "\n", "\r", "\f"}

\* [a-zA-Z0-9_] restricted to the characters the model's texts use
NameChars == {"a", "b", "f", "i", "p", "r", "s", "x", "_"}

\* re.escape's _special_chars_map (Python 3.7+)
SpecialChars ==
    {"(", ")", "[", "]", "{", "}", "?", "*", "+", "-", "|", "^", "$", BS,
     ".", "&", "~", "#", " ", "\t", "\n", "\r", "\f"}

RECURSIVE Flatten(_)
Flatten(ss) ==
    IF ss = <<>> THEN <<>> ELSE Head(ss) \o Flatten(Tail(ss))

\* s[i..] starts with the sequence t
StartsWithAt(s, i, t) ==
    /\ i + Len(t) - 1 <= Len(s)
    /\ \A k \in 1..Len(t) : s[i + k - 1] = t[k]

(***************************************************************************)
(* Endpoint.full_path and Endpoint.build_regex.                            *)
(***************************************************************************)
ApiPrefix == <<"/", "a", "p", "i">>

full_path(path) == ApiPrefix \o path

\* re.escape: a backslash before each special character, nothing else
re_escape(s) ==
    Flatten([k \in 1..Len(s) |->
                IF s[k] \in SpecialChars THEN <<BS, s[k]>> ELSE <<s[k]>>])

\* end (exclusive) of the longest run of name characters starting at i
RECURSIVE NameEnd(_, _)
NameEnd(s, i) ==
    IF i <= Len(s) /\ s[i] \in NameChars THEN NameEnd(s, i + 1) ELSE i

\* PARAM_RE = \\:([a-zA-Z0-9_]+) matches at i
ParamAt(s, i) ==
    /\ i + 2 <= Len(s)
    /\ s[i] = BS
    /\ s[i + 1] = ":"
    /\ s[i + 2] \in NameChars

LooseParam == <<"[", "^", "/", "]", "+">>

\* PARAM_RE.sub(r"[^/]+", s): leftmost non-overlapping matches, left to right
RECURSIVE ParamSub(_, _)
ParamSub(s, i) ==
    IF i > Len(s) THEN <<>>
    ELSE IF ParamAt(s, i) THEN LooseParam \o ParamSub(s, NameEnd(s, i + 2))
    ELSE <<s[i]>> \o ParamSub(s, i + 1)

LooseWildcard == <<"[", "^", BS, "s", "]", "*">>

\* pattern.replace(r"\*", r"[^\s]*")
RECURSIVE WildcardReplace(_, _)
WildcardReplace(s, i) ==
    IF i > Len(s) THEN <<>>
    ELSE IF StartsWithAt(s, i, <<BS, "*">>)
         THEN LooseWildcard \o WildcardReplace(s, i + 2)
    ELSE <<s[i]>> \o WildcardReplace(s, i + 1)

\* The pattern text handed to re.compile
build_regex(path) ==
    WildcardReplace(ParamSub(re_escape(full_path(path)), 1), 1)

(***************************************************************************)
(* re.compile and Pattern.search, for the pattern syntax build_regex can   *)
(* produce: escaped and plain literals, the negated classes [^/] and       *)
(* [^\s], the quantifiers + and *, and a bare ^ (start of text).           *)
(***************************************************************************)
\* index of the first "]" at or after i
RECURSIVE ClassEnd(_, _)
ClassEnd(p, i) ==
    IF p[i] = "]" THEN i ELSE ClassEnd(p, i + 1)

\* the members of a negated class body p[i..j-1]: \s stands for whitespace
RECURSIVE ClassExcluded(_, _, _)
ClassExcluded(p, i, j) ==
    IF i >= j THEN {}
    ELSE IF p[i] = BS
         THEN (IF p[i + 1] = "s" THEN Whitespace ELSE {p[i + 1]})
              \cup ClassExcluded(p, i + 2, j)
    ELSE {p[i]} \cup ClassExcluded(p, i + 1, j)

\* the atom starting at p[i] and the index after it
AtomAt(p, i) ==
    IF p[i] = BS
    THEN [atom |-> [kind |-> "lit", ch |-> p[i + 1]], next |-> i + 2]
    ELSE IF StartsWithAt(p, i, <<"[", "^">>)
    THEN LET j == ClassEnd(p, i + 2)
         IN  [atom |-> [kind |-> "neg", excl |-> ClassExcluded(p, i + 2, j)],
              next |-> j + 1]
    ELSE IF p[i] = "^"
    THEN [atom |-> [kind |-> "bol"], next |-> i + 1]
    ELSE [atom |-> [kind |-> "lit", ch |-> p[i]], next |-> i + 1]

\* re.compile: the pattern text as a sequence of quantified atoms
RECURSIVE re_compile(_, _)
re_compile(p, i) ==
    IF i > Len(p) THEN <<>>
    ELSE LET a == AtomAt(p, i)
             q == IF a.next <= Len(p) /\ p[a.next] \in {"+", "*"}
                  THEN p[a.next] ELSE "1"
             n == IF q = "1" THEN a.next ELSE a.next + 1
         IN  <<[atom |-> a.atom, q |-> q]>> \o re_compile(p, n)

AtomOk(atom, c) ==
    IF atom.kind = "lit" THEN c = atom.ch
    ELSE IF atom.kind = "neg" THEN c \notin atom.excl
    ELSE FALSE

\* the items k.. of the compiled pattern match some prefix of text[i..]
RECURSIVE MatchFrom(_, _, _, _)
MatchFrom(items, k, text, i) ==
    IF k > Len(items) THEN TRUE
    ELSE LET it == items[k]
             one == i <= Len(text) /\ AtomOk(it.atom, text[i])
         IN  IF it.atom.kind = "bol"
             THEN i = 1 /\ MatchFrom(items, k + 1, text, i)
             ELSE IF it.q = "1"
             THEN one /\ MatchFrom(items, k + 1, text, i + 1)
             ELSE IF it.q = "+"
             THEN one /\ (\/ MatchFrom(items, k + 1, text, i + 1)
                          \/ MatchFrom(items, k, text, i + 1))
             ELSE \/ MatchFrom(items, k + 1, text, i)
                  \/ one /\ MatchFrom(items, k, text, i + 1)

\* Pattern.search(text): a match starting anywhere in the text
re_search(pattern, text) ==
    LET items == re_compile(pattern, 1)
    IN  \E i \in 1..(Len(text) + 1) : MatchFrom(items, 1, text, i)

(***************************************************************************)
(* Module constants of the tool.                                           *)
(***************************************************************************)
REPO_ROOT == "REPO_ROOT"

MAIN_FILE == <<REPO_ROOT, "cmd", "sdsm", "main.go">>

UI_DIRS == << <<REPO_ROOT, "ui">>, <<REPO_ROOT, "webassets">> >>

TEXT_EXTENSIONS ==
    {".html", ".htm", ".js", ".ts", ".tsx", ".css", ".scss", ".go", ".json",
     ".md", ".txt", ".tmpl"}

\* str.lower() on the suffixes the model's trees use
Lower(suffix) ==
    CASE suffix = ".JS" -> ".js"
      [] suffix = ".PNG" -> ".png"
      [] OTHER -> suffix

(***************************************************************************)
(* Inputs.  main.go is a sequence of lexemes: a newline character, or a    *)
(* stretch of text that ROUTE_RE matches, with the two groups it captures  *)
(* and the number of newline characters inside the match (\s* and the path *)
(* may span lines).                                                         *)
(***************************************************************************)
PathPlain == <<"/", "s">>
PathParam == <<"/", "s", "/", BS, ":", "i", "/", "r">>
PathColon == <<"/", "s", "/", ":", "i", "/", "r">>
PathWild == <<"/", "f", "/", "*", "p">>

Newline == [kind |-> "nl"]

Route(m, p, n) == [kind |-> "route", method |-> m, path |-> p, nl |-> n]

Lexemes ==
    {Newline,
     Route("GET", PathPlain, 0), Route("POST", PathPlain, 0),
     Route("GET", PathPlain, 1), Route("POST", PathParam, 0),
     Route("GET", PathColon, 0), Route("GET", PathWild, 0)}

SeqsUpTo(S, n) == UNION {[1..k -> S] : k \in 0..n}

AllContents == SeqsUpTo(Lexemes, MaxTokens)

FewContents ==
    {<<Route("GET", PathPlain, 0), Newline, Route("POST", PathParam, 0)>>,
     <<Route("GET", PathColon, 0), Newline, Route("GET", PathWild, 0),
       Route("GET", PathColon, 0)>>,
     <<Newline, Route("POST", PathPlain, 0), Route("GET", PathWild, 0)>>}

\* Texts of UI files
TextNone == <<"x">>
TextPlain == <<"'">> \o ApiPrefix \o <<"/", "s", "'">>
TextInst == ApiPrefix \o <<"/", "s", "/", "a", "b", "/", "r">>
TextCross == ApiPrefix \o <<"/", "s", "/", "a", "/", "b", "/", "r">>
TextColon == ApiPrefix \o <<"/", "s", "/", ":", "i", "/", "r">>
TextWild == ApiPrefix \o <<"/", "f", "/", "x", "p", " ">>

Texts == {TextNone, TextPlain, TextInst, TextCross, TextColon, TextWild}

\* A directory entry rglob yields: a directory, or a file with a suffix and
\* what read_text does on it
Dir == [isDir |-> TRUE, suffix |-> "", read |-> "none", text |-> <<>>]

File(sfx, r, t) == [isDir |-> FALSE, suffix |-> sfx, read |-> r, text |-> t]

Entries ==
    {Dir,
     File(".png", "text", TextWild),
     File(".js", "undecodable", <<>>),
     File(".js", "oserror", <<>>),
     File(".JS", "text", TextPlain),
     File(".js", "text", TextInst),
     File(".html", "text", TextColon),
     File(".ts", "text", TextWild),
     File(".md", "text", TextCross)}

MissingRoot == [exists |-> FALSE, entries |-> <<>>]

Root(es) == [exists |-> TRUE, entries |-> es]

Roots == {MissingRoot} \cup {Root(es) : es \in SeqsUpTo(Entries, MaxFiles)}

\* the two UI roots, in UI_DIRS order; rglob's order is any order
AllTrees ==
    {t \in [1..Len(UI_DIRS) -> Roots] :
        Len(t[1].entries) + Len(t[2].entries) <= MaxFiles}

FewTrees ==
    {<<Root(<<File(".js", "text", TextInst), File(".js", "undecodable", <<>>),
              File(".JS", "text", TextPlain)>>), MissingRoot>>,
     <<MissingRoot, Root(<<File(".html", "text", TextColon), Dir,
                           File(".ts", "text", TextWild)>>)>>}

(***************************************************************************)
(* parse_endpoints.                                                        *)
(***************************************************************************)
Endpoint(m, p, l) ==
    [method |-> m, path |-> p, line |-> l, regex |-> <<>>, used |-> FALSE,
     matches |-> <<>>]

NewlinesIn(lex) == IF lex.kind = "nl" THEN 1 ELSE lex.nl

\* content.count("\n", 0, match.start()) for the match that is lexeme k
RECURSIVE CountNewlines(_, _)
CountNewlines(content, k) ==
    IF k <= 1 THEN 0
    ELSE CountNewlines(content, k - 1) + NewlinesIn(content[k - 1])

\* the loop over ROUTE_RE.finditer(content), from lexeme k on
RECURSIVE FindRoutes(_, _)
FindRoutes(content, k) ==
    IF k > Len(content) THEN <<>>
    ELSE (IF content[k].kind = "route"
          THEN <<Endpoint(content[k].method, content[k].path,
                          CountNewlines(content, k) + 1)>>
          ELSE <<>>)
         \o FindRoutes(content, k + 1)

Key(ep) == <<ep.method, ep.path>>

\* Unique without the `if key not in unique` test and without the dict:
\* every declaration is kept
Unique_KeepAll(eps, acc) == acc \o eps

\* Unique with `unique[key] = ep` done for every declaration: the key keeps
\* its place in the dict and the last declaration's Endpoint replaces the first
RECURSIVE Unique_LastWins(_, _)
Unique_LastWins(eps, acc) ==
    IF eps = <<>> THEN acc
    ELSE Unique_LastWins(Tail(eps),
           IF \E i \in 1..Len(acc) : <<acc[i].method, acc[i].path>>
                                       = <<Head(eps).method, Head(eps).path>>
           THEN [i \in 1..Len(acc) |->
                   IF <<acc[i].method, acc[i].path>>
                        = <<Head(eps).method, Head(eps).path>>
                   THEN Head(eps) ELSE acc[i]]
           ELSE Append(acc, Head(eps)))

\* the dict `unique`, as its values in insertion order
RECURSIVE Unique(_, _)
Unique(eps, acc) ==
    IF eps = <<>> THEN acc
    ELSE IF \E i \in 1..Len(acc) : Key(acc[i]) = Key(Head(eps))
         THEN Unique(Tail(eps), acc)
    ELSE Unique(Tail(eps), Append(acc, Head(eps)))

WithRegex(eps) ==
    [i \in 1..Len(eps) |-> [eps[i] EXCEPT !.regex = build_regex(eps[i].path)]]

parse_endpoints(content) == WithRegex(Unique(FindRoutes(content, 1), <<>>))

(***************************************************************************)
(* iter_ui_files.                                                          *)
(***************************************************************************)
\* IsCandidate comparing path.suffix itself, without .lower()
IsCandidate_NoLower(entry) ==
    /\ ~entry.isDir
    /\ entry.suffix \in TEXT_EXTENSIONS

IsCandidate(entry) ==
    /\ ~entry.isDir
    /\ Lower(entry.suffix) \in TEXT_EXTENSIONS

\* the paths one root yields, entries k.. in rglob order
RECURSIVE RootFiles(_, _, _)
RootFiles(dirs, r, k) ==
    IF k > Len(dirs[r].entries) THEN <<>>
    ELSE (IF IsCandidate(dirs[r].entries[k])
          THEN <<Append(UI_DIRS[r], k)>> ELSE <<>>)
         \o RootFiles(dirs, r, k + 1)

\* iter_ui_files leaving the loop over UI_DIRS at the first missing root
\* (break for continue)
RECURSIVE iter_ui_files_StopAtMissing(_, _)
iter_ui_files_StopAtMissing(dirs, r) ==
    IF r > Len(UI_DIRS) \/ ~dirs[r].exists THEN <<>>
    ELSE RootFiles(dirs, r, 1) \o iter_ui_files_StopAtMissing(dirs, r + 1)

RECURSIVE iter_ui_files(_, _)
iter_ui_files(dirs, r) ==
    IF r > Len(UI_DIRS) THEN <<>>
    ELSE (IF ~dirs[r].exists THEN <<>> ELSE RootFiles(dirs, r, 1))
         \o iter_ui_files(dirs, r + 1)

\* the root index and the directory entry behind a yielded path
RootOf(path) == CHOOSE r \in 1..Len(UI_DIRS) : UI_DIRS[r] = SubSeq(path, 1, 2)

EntryOf(dirs, path) == dirs[RootOf(path)].entries[path[3]]

\* Path.relative_to(REPO_ROOT)
relative_to(path) == Tail(path)

(***************************************************************************)
(* State.                                                                  *)
(***************************************************************************)
VARIABLES
    mainFile,    \* the route file on disk: [exists, content]
    uiDirs,      \* the two UI roots on disk
    pc,          \* position in main()
    endpoints,   \* the list parse_endpoints returned
    files,       \* scan_usage's list of paths
    fi,          \* index in files of the file being processed
    text,        \* text of that file
    ei,          \* index in endpoints of the inner loop
    stdout,      \* lines printed so far
    exitMsg,     \* SystemExit's message, <<>> while none was raised
    reads,       \* history: paths whose content or listing was read
    searched     \* history: <<endpoint index, file index>> pairs searched

vars ==
    <<mainFile, uiDirs, pc, endpoints, files, fi, text, ei, stdout, exitMsg,
      reads, searched>>

disk == <<mainFile, uiDirs>>

MainFiles(contents) ==
    {[exists |-> TRUE, content |-> c] : c \in contents}

MissingMain == [exists |-> FALSE, content |-> <<>>]

Init ==
    /\ \/ /\ mainFile \in MainFiles(AllContents) \cup {MissingMain}
          /\ uiDirs \in FewTrees
       \/ /\ mainFile \in MainFiles(FewContents)
          /\ uiDirs \in AllTrees
    /\ pc = "start"
    /\ endpoints = <<>>
    /\ files = <<>>
    /\ fi = 0
    /\ text = <<>>
    /\ ei = 0
    /\ stdout = <<>>
    /\ exitMsg = <<>>
    /\ reads = {}
    /\ searched = {}

(***************************************************************************)
(* Printed lines: the fixed text, and the values formatted into it.        *)
(***************************************************************************)
Line(t, k) == [text |-> t, n |-> k, method |-> "", path |-> <<>>]

NoneParsedLine == Line("No API endpoints parsed.", 0)

BlankLine == Line("", 0)

UnusedHeader == Line("Endpoints without matches in ui/* or webassets/*:", 0)

NoteLine == Line("NOTE: Some endpoints might be consumed by non-UI clients", 0)

AllUsedLine == Line("All parsed endpoints have at least one UI reference.", 0)

UnusedLine(ep) ==
    [text |-> "  - ", n |-> ep.line, method |-> ep.method,
     path |-> full_path(ep.path)]

IsUnused(ep) == ~ep.used

\* ReportLines listing every Endpoint (for ep in endpoints) under the header
ReportLines_ListsAll(eps) ==
    LET unused == SelectSeq(eps, IsUnused)
        used == Len(eps) - Len(unused)
    IN  <<Line("Total API endpoints found:", Len(eps)),
          Line("Used by UI artifacts:", used),
          Line("Unused in UI (potential):", Len(unused)),
          BlankLine>>
        \o (IF unused # <<>>
            THEN <<UnusedHeader>>
                 \o [i \in 1..Len(eps) |-> UnusedLine(eps[i])]
                 \o <<BlankLine, NoteLine>>
            ELSE <<AllUsedLine>>)

\* what main prints after scan_usage
ReportLines(eps) ==
    LET unused == SelectSeq(eps, IsUnused)
        used == Len(eps) - Len(unused)
    IN  <<Line("Total API endpoints found:", Len(eps)),
          Line("Used by UI artifacts:", used),
          Line("Unused in UI (potential):", Len(unused)),
          BlankLine>>
        \o (IF unused # <<>>
            THEN <<UnusedHeader>>
                 \o [i \in 1..Len(unused) |-> UnusedLine(unused[i])]
                 \o <<BlankLine, NoteLine>>
            ELSE <<AllUsedLine>>)

(***************************************************************************)
(* Actions: the steps of main().                                           *)
(***************************************************************************)
\* ParseEndpoints without the MAIN_FILE.exists() test: a missing file reads
\* as an empty one
ParseEndpoints_NoExistsTest ==
    /\ pc = "start"
    /\ endpoints' = parse_endpoints(mainFile.content)
    /\ reads' = reads \cup {MAIN_FILE}
    /\ pc' = "parsed"
    /\ UNCHANGED <<disk, files, fi, text, ei, stdout, exitMsg, searched>>

\* main: endpoints = parse_endpoints()
ParseEndpoints ==
    /\ pc = "start"
    /\ IF ~mainFile.exists
       THEN /\ exitMsg' = <<"Cannot locate main.go at", MAIN_FILE>>
            /\ pc' = "aborted"
            /\ UNCHANGED <<endpoints, reads>>
       ELSE /\ endpoints' = parse_endpoints(mainFile.content)
            /\ reads' = reads \cup {MAIN_FILE}
            /\ pc' = "parsed"
            /\ UNCHANGED exitMsg
    /\ UNCHANGED <<disk, files, fi, text, ei, stdout, searched>>

\* NoEndpoints without the return: main goes on to scan and report
NoEndpoints_NoReturn ==
    /\ pc = "parsed"
    /\ endpoints = <<>>
    /\ stdout' = Append(stdout, NoneParsedLine)
    /\ files' = iter_ui_files(uiDirs, 1)
    /\ fi' = 1
    /\ pc' = "scan"
    /\ UNCHANGED <<disk, endpoints, text, ei, exitMsg, reads, searched>>

\* main: if not endpoints: print(...); return
NoEndpoints ==
    /\ pc = "parsed"
    /\ endpoints = <<>>
    /\ stdout' = Append(stdout, NoneParsedLine)
    /\ pc' = "done"
    /\ UNCHANGED <<disk, endpoints, files, fi, text, ei, exitMsg, reads,
                   searched>>

\* scan_usage: files = list(iter_ui_files())
ListFiles ==
    /\ pc = "parsed"
    /\ endpoints # <<>>
    /\ files' = iter_ui_files(uiDirs, 1)
    /\ reads' = reads \cup {UI_DIRS[r] : r \in {q \in 1..Len(UI_DIRS) :
                                                  uiDirs[q].exists}}
    /\ fi' = 1
    /\ pc' = "scan"
    /\ UNCHANGED <<disk, endpoints, text, ei, stdout, exitMsg, searched>>

\* scan_usage: the head of the loop over files, up to `for ep in endpoints`
ReadFile ==
    /\ pc = "scan"
    /\ fi <= Len(files)
    /\ reads' = reads \cup {files[fi]}
    /\ LET entry == EntryOf(uiDirs, files[fi])
       IN  CASE entry.read = "undecodable" ->
                  /\ fi' = fi + 1
                  /\ UNCHANGED <<pc, text, ei>>
             [] entry.read = "text" ->
                  /\ text' = entry.text
                  /\ ei' = 1
                  /\ pc' = "match"
                  /\ UNCHANGED fi
             [] OTHER ->
                  /\ pc' = "crashed"
                  /\ UNCHANGED <<fi, text, ei>>
    /\ UNCHANGED <<disk, endpoints, files, stdout, exitMsg, searched>>

\* TestEndpoint without `if ep.used: continue`
TestEndpoint_NoSkip ==
    /\ pc = "match"
    /\ ei <= Len(endpoints)
    /\ searched' = searched \cup {<<ei, fi>>}
    /\ IF re_search(endpoints[ei].regex, text)
       THEN endpoints' =
              [endpoints EXCEPT
                 ![ei].used = TRUE,
                 ![ei].matches = Append(@, relative_to(files[fi]))]
       ELSE UNCHANGED endpoints
    /\ ei' = ei + 1
    /\ UNCHANGED <<disk, pc, files, fi, text, stdout, exitMsg, reads>>

\* TestEndpoint storing each search's outcome: ep.used = bool(search)
TestEndpoint_AssignsOutcome ==
    /\ pc = "match"
    /\ ei <= Len(endpoints)
    /\ searched' = searched \cup {<<ei, fi>>}
    /\ IF re_search(endpoints[ei].regex, text)
       THEN endpoints' =
              [endpoints EXCEPT
                 ![ei].used = TRUE,
                 ![ei].matches = <<relative_to(files[fi])>>]
       ELSE endpoints' = [endpoints EXCEPT ![ei].used = FALSE]
    /\ ei' = ei + 1
    /\ UNCHANGED <<disk, pc, files, fi, text, stdout, exitMsg, reads>>

\* scan_usage: one pass of the loop over endpoints
TestEndpoint ==
    /\ pc = "match"
    /\ ei <= Len(endpoints)
    /\ IF endpoints[ei].used
       THEN UNCHANGED <<endpoints, searched>>
       ELSE /\ searched' = searched \cup {<<ei, fi>>}
            /\ IF re_search(endpoints[ei].regex, text)
               THEN endpoints' =
                      [endpoints EXCEPT
                         ![ei].used = TRUE,
                         ![ei].matches = Append(@, relative_to(files[fi]))]
               ELSE UNCHANGED endpoints
    /\ ei' = ei + 1
    /\ UNCHANGED <<disk, pc, files, fi, text, stdout, exitMsg, reads>>

\* scan_usage: the loop over endpoints is exhausted, on to the next file
NextFile ==
    /\ pc = "match"
    /\ ei > Len(endpoints)
    /\ fi' = fi + 1
    /\ pc' = "scan"
    /\ UNCHANGED <<disk, endpoints, files, text, ei, stdout, exitMsg, reads,
                   searched>>

\* main: the report after scan_usage returned
Report ==
    /\ pc = "scan"
    /\ fi > Len(files)
    /\ stdout' = stdout \o ReportLines(endpoints)
    /\ pc' = "done"
    /\ UNCHANGED <<disk, endpoints, files, fi, text, ei, exitMsg, reads,
                   searched>>

Next ==
    \/ ParseEndpoints
    \/ NoEndpoints
    \/ ListFiles
    \/ ReadFile
    \/ TestEndpoint
    \/ NextFile
    \/ Report

Spec == Init /\ [][Next]_vars

(***************************************************************************)
(* Properties.                                                             *)
(***************************************************************************)
Parsed == pc \notin {"start", "aborted"}

EndpointIdx == 1..Len(endpoints)

\* ---- C1 ----------------------------------------------------------------
\* the places of a path where a parameter segment (backslash, colon, name)
\* starts
ParamStarts(path) == {i \in 1..Len(path) : ParamAt(path, i)}

\* text contains pre, then a non-empty run, then suf; the run holds no slash
\* unless slashOk
ContainsInstance(t, pre, suf, slashOk) ==
    \E a \in 1..Len(t), b \in 1..(Len(t) + 1) :
        /\ StartsWithAt(t, a, pre)
        /\ b > a + Len(pre)
        /\ StartsWithAt(t, b, suf)
        /\ slashOk \/ \A c \in (a + Len(pre))..(b - 1) : t[c] # "/"

\* C1: for an Endpoint whose path has exactly one parameter segment, the
\* match pattern matches every text that contains the full path with the
\* segment replaced by a non-empty run of non-slash characters, and matches
\* no text where the replacement would have to contain a slash.
C1_ParamPatternMatchesInstances ==
    \A e \in EndpointIdx :
        LET path == endpoints[e].path
            full == full_path(path)
        IN  Cardinality(ParamStarts(path)) = 1 =>
              LET i == CHOOSE j \in ParamStarts(full) : TRUE
                  pre == SubSeq(full, 1, i - 1)
                  suf == SubSeq(full, NameEnd(full, i + 2), Len(full))
              IN  \A t \in Texts :
                    /\ ContainsInstance(t, pre, suf, FALSE)
                         => re_search(endpoints[e].regex, t)
                    /\ (/\ ContainsInstance(t, pre, suf, TRUE)
                        /\ ~ContainsInstance(t, pre, suf, FALSE))
                         => ~re_search(endpoints[e].regex, t)

\* ---- C3 ----------------------------------------------------------------
RouteIdx == {k \in 1..Len(mainFile.content) : mainFile.content[k].kind = "route"}

DeclKey(k) == <<mainFile.content[k].method, mainFile.content[k].path>>

\* the lexeme where the pair is declared first
FirstDecl(key) ==
    CHOOSE k \in RouteIdx :
        /\ DeclKey(k) = key
        /\ \A j \in RouteIdx : DeclKey(j) = key => k <= j

EndpointKey(e) == <<endpoints[e].method, endpoints[e].path>>

\* C3: parse_endpoints returns exactly one Endpoint per distinct
\* (method, path) pair among the matched declarations, however often the
\* pair is declared, and nothing else, in the order of first occurrence.
C3_OneEndpointPerPairInFirstOrder ==
    Parsed =>
      /\ \A k \in RouteIdx :
            Cardinality({e \in EndpointIdx : EndpointKey(e) = DeclKey(k)}) = 1
      /\ \A e \in EndpointIdx : \E k \in RouteIdx : DeclKey(k) = EndpointKey(e)
      /\ \A e, f \in EndpointIdx :
            e < f => FirstDecl(EndpointKey(e)) < FirstDecl(EndpointKey(f))

\* a pair declared more than once among other pairs, after parsing
C3_Witness ==
    /\ Parsed
    /\ Len(endpoints) >= 2
    /\ \E j, k \in RouteIdx : j < k /\ DeclKey(j) = DeclKey(k)

\* ---- C4 ----------------------------------------------------------------
\* newline characters in the lexemes before lexeme k
RECURSIVE NewlineCharsBefore(_)
NewlineCharsBefore(k) ==
    IF k = 1 THEN 0
    ELSE NewlineCharsBefore(k - 1)
         + (IF mainFile.content[k - 1].kind = "nl" THEN 1
            ELSE mainFile.content[k - 1].nl)

\* C4: the retained Endpoint's line is that of the pair's first declaration:
\* the number of newline characters before that match's start, plus one;
\* later duplicates never change it.
C4_LineOfFirstDeclaration ==
    Parsed =>
      \A e \in EndpointIdx :
          endpoints[e].line = NewlineCharsBefore(FirstDecl(EndpointKey(e))) + 1

\* a pair declared again on a later line than its first declaration, and the
\* first declaration not on line 1
C4_Witness ==
    /\ Parsed
    /\ \E e \in EndpointIdx, k \in RouteIdx :
          /\ DeclKey(k) = EndpointKey(e)
          /\ NewlineCharsBefore(k) + 1 > endpoints[e].line
          /\ endpoints[e].line > 1

\* ---- C5 ----------------------------------------------------------------
\* C5: with the source file missing the run aborts at once with a message
\* naming the path: no Endpoint is created, nothing is read or listed, no
\* search is made and nothing is printed.
C5_MissingMainAbortsFirst ==
    ~mainFile.exists =>
      /\ pc \in {"start", "aborted"}
      /\ pc = "aborted" =>
            /\ Len(exitMsg) = 2
            /\ exitMsg[2] = MAIN_FILE
      /\ endpoints = <<>>
      /\ files = <<>>
      /\ reads = {}
      /\ searched = {}
      /\ stdout = <<>>

C5_Witness == ~mainFile.exists /\ pc = "aborted" /\ exitMsg # <<>>

\* ---- C2 ----------------------------------------------------------------
ScanFinished == pc = "done" /\ endpoints # <<>>

\* <<root, place>> of every directory entry on disk
DirEntries ==
    UNION {{<<r, k>> : k \in 1..Len(uiDirs[r].entries)} : r \in 1..Len(UI_DIRS)}

\* the directory entries that are candidate files whose text decodes
DecodedCandidates ==
    {rk \in DirEntries :
        /\ uiDirs[rk[1]].exists
        /\ LET entry == uiDirs[rk[1]].entries[rk[2]]
           IN  /\ ~entry.isDir
               /\ Lower(entry.suffix) \in TEXT_EXTENSIONS
               /\ entry.read = "text"}

EntryText(rk) == uiDirs[rk[1]].entries[rk[2]].text

\* C2: after scan_usage an Endpoint is used exactly when some candidate file
\* that decodes contains an occurrence of its pattern; the condition does not
\* mention the traversal order, so the used/unused outcome is the same for
\* every order.
C2_UsedIffSomeCandidateMatches ==
    ScanFinished =>
      \A e \in EndpointIdx :
          endpoints[e].used <=>
            \E rk \in DecodedCandidates :
                re_search(endpoints[e].regex, EntryText(rk))

\* the scan finished with a used Endpoint found in a file with an upper-case
\* suffix, and an unused one that only a non-candidate file mentions
C2_Witness ==
    /\ ScanFinished
    /\ \E e \in EndpointIdx, rk \in DecodedCandidates :
          /\ endpoints[e].used
          /\ uiDirs[rk[1]].entries[rk[2]].suffix = ".JS"
          /\ endpoints[e].matches = <<relative_to(Append(UI_DIRS[rk[1]], rk[2]))>>
    /\ \E e \in EndpointIdx, rk \in DirEntries \ DecodedCandidates :
          /\ ~endpoints[e].used
          /\ re_search(endpoints[e].regex, EntryText(rk))

\* ---- C6 ----------------------------------------------------------------
PathOfEntry(rk) == Append(UI_DIRS[rk[1]], rk[2])

\* rglob order within a root, UI_DIRS order across roots
Before(a, b) == a[1] < b[1] \/ (a[1] = b[1] /\ a[2] < b[2])

\* the decoded candidates whose text holds an occurrence of e's pattern
Matching(e) ==
    {rk \in DecodedCandidates : re_search(endpoints[e].regex, EntryText(rk))}

FirstMatching(e) ==
    CHOOSE rk \in Matching(e) : \A o \in Matching(e) : o = rk \/ Before(rk, o)

\* C6: a missing UI root and a candidate file that fails to decode end
\* nothing: the run stops early only on a missing source file or a read
\* error of another kind, and the two loops stay within their lists, so that
\* a next step exists until the report; and
\* after the scan every decodable candidate of every existing root was read
\* and each Endpoint's used and matches are what the existing roots'
\* decodable candidates alone determine.
C6_MissingRootAndUndecodableSkipped ==
    /\ pc = "aborted" => ~mainFile.exists
    /\ pc = "crashed" =>
          /\ fi \in 1..Len(files)
          /\ EntryOf(uiDirs, files[fi]).read = "oserror"
    /\ pc = "scan" => fi \in 1..(Len(files) + 1)
    /\ pc = "match" =>
          /\ fi \in 1..Len(files)
          /\ ei \in 1..(Len(endpoints) + 1)
    /\ ScanFinished =>
          /\ \A rk \in DecodedCandidates : PathOfEntry(rk) \in reads
          /\ \A e \in EndpointIdx :
                /\ endpoints[e].used = (Matching(e) # {})
                /\ endpoints[e].matches =
                     IF Matching(e) = {} THEN <<>>
                     ELSE <<relative_to(PathOfEntry(FirstMatching(e)))>>

\* the scan finished with the first root missing, and an Endpoint found in
\* a file that comes after a candidate that failed to decode
C6_Witness ==
    /\ ScanFinished
    /\ ~uiDirs[1].exists
    /\ \E e \in EndpointIdx, rk \in DirEntries :
          /\ uiDirs[rk[1]].entries[rk[2]].read = "undecodable"
          /\ PathOfEntry(rk) \in reads
          /\ Matching(e) # {}
          /\ Before(rk, FirstMatching(e))
          /\ endpoints[e].used

\* ---- C7 ----------------------------------------------------------------
UsedIdx == {e \in EndpointIdx : endpoints[e].used}

UnusedIdx == EndpointIdx \ UsedIdx

IsListing(l) == l.text = "  - "

\* the j-th unused Endpoint in list order
NthUnused(j) ==
    CHOOSE e \in UnusedIdx : Cardinality({u \in UnusedIdx : u <= e}) = j

\* C7: with at least one Endpoint parsed the report prints total, used and
\* unused as the numbers of Endpoints, of used ones and of unused ones (so
\* used + unused = total) and lists exactly the unused Endpoints, once each,
\* with method, full path and line, in Endpoint-list order.
C7_ReportCountsAndListing ==
    ScanFinished =>
      LET listed == SelectSeq(stdout, IsListing)
      IN  /\ Len(stdout) >= 4
          /\ stdout[1] = Line("Total API endpoints found:", Len(endpoints))
          /\ stdout[2] = Line("Used by UI artifacts:", Cardinality(UsedIdx))
          /\ stdout[3] = Line("Unused in UI (potential):", Cardinality(UnusedIdx))
          /\ stdout[2].n + stdout[3].n = stdout[1].n
          /\ Len(listed) = Cardinality(UnusedIdx)
          /\ \A j \in 1..Len(listed) :
                /\ listed[j].method = endpoints[NthUnused(j)].method
                /\ listed[j].path = ApiPrefix \o endpoints[NthUnused(j)].path
                /\ listed[j].n = endpoints[NthUnused(j)].line

\* a report over a used Endpoint standing between two unused ones
C7_Witness ==
    /\ ScanFinished
    /\ \E a, b, c \in EndpointIdx :
          /\ a < b /\ b < c
          /\ ~endpoints[a].used /\ endpoints[b].used /\ ~endpoints[c].used

\* ---- C8 ----------------------------------------------------------------
Printed(l) == \E k \in 1..Len(stdout) : stdout[k] = l

OutcomeNone == stdout = <<NoneParsedLine>>

OutcomeUnused ==
    /\ Len(stdout) >= 2
    /\ Printed(UnusedHeader)
    /\ stdout[Len(stdout)] = NoteLine
    /\ \E h \in 1..Len(stdout) :
          /\ stdout[h] = UnusedHeader
          /\ \A k \in 1..Len(stdout) : IsListing(stdout[k]) => h < k
    /\ ~Printed(NoneParsedLine)
    /\ ~Printed(AllUsedLine)

OutcomeAllUsed ==
    /\ stdout # <<>>
    /\ stdout[Len(stdout)] = AllUsedLine
    /\ ~Printed(NoneParsedLine)
    /\ ~Printed(UnusedHeader)
    /\ ~Printed(NoteLine)
    /\ \A k \in 1..Len(stdout) : ~IsListing(stdout[k])

\* C8: a run that reaches its end without aborting shows exactly one of
\* three outcomes: the single line "No API endpoints parsed." exactly when
\* no Endpoint was parsed (and then nothing was listed, read or searched in
\* the UI roots); the unused listing followed by the note exactly when some
\* Endpoint is unused; the all-used message exactly when Endpoints were
\* parsed and all are used.
C8_ExactlyOneOutcome ==
    pc = "done" =>
      /\ OutcomeNone <=> endpoints = <<>>
      /\ OutcomeUnused <=> \E e \in EndpointIdx : ~endpoints[e].used
      /\ OutcomeAllUsed <=>
            (endpoints # <<>> /\ \A e \in EndpointIdx : endpoints[e].used)
      /\ endpoints = <<>> =>
            /\ files = <<>>
            /\ searched = {}
            /\ reads = {MAIN_FILE}

\* a source file with text but no declaration: the run ended on the single
\* line
C8_Witness ==
    /\ pc = "done"
    /\ mainFile.content # <<>>
    /\ endpoints = <<>>
    /\ OutcomeNone

\* ---- C9 ----------------------------------------------------------------
\* file f of the traversal decodes and holds an occurrence of e's pattern
Hit(e, f) ==
    LET entry == EntryOf(uiDirs, files[f])
    IN  entry.read = "text" /\ re_search(endpoints[e].regex, entry.text)

\* C9: in every state each Endpoint has at most one entry in matches, is
\* used exactly when it has one, the entry is the first file of the
\* traversal whose text matches, and no search of an Endpoint is made on a
\* file that comes after one that matched it.
C9_AtMostOneMatchTheFirst ==
    /\ \A e \in EndpointIdx :
          /\ Len(endpoints[e].matches) <= 1
          /\ endpoints[e].used <=> endpoints[e].matches # <<>>
          /\ endpoints[e].used =>
                \E f \in 1..Len(files) :
                    /\ endpoints[e].matches[1] = relative_to(files[f])
                    /\ Hit(e, f)
                    /\ \A g \in 1..(f - 1) : ~Hit(e, g)
    /\ \A ef \in searched : \A g \in 1..(ef[2] - 1) : ~Hit(ef[1], g)

\* the scan finished over two files that both match a used Endpoint
C9_Witness ==
    /\ ScanFinished
    /\ \E e \in EndpointIdx, f, g \in 1..Len(files) :
          /\ f < g
          /\ Hit(e, f)
          /\ Hit(e, g)
          /\ endpoints[e].used
          /\ files[g] \in reads

\* ---- C10 ---------------------------------------------------------------
\* the Endpoint at place e is the same but for used and matches
SameIdentity(e) ==
    /\ endpoints'[e].method = endpoints[e].method
    /\ endpoints'[e].path = endpoints[e].path
    /\ endpoints'[e].line = endpoints[e].line
    /\ endpoints'[e].regex = endpoints[e].regex

\* C10: once the list is parsed no step adds, removes or reorders Endpoints
\* or changes a method, path, line or pattern; used only goes from false to
\* true, and then with one append to matches; and the pass over a file that
\* matches no unused Endpoint leaves the list as it was.
C10_ScanFrame ==
    [][pc # "start" =>
         /\ Len(endpoints') = Len(endpoints)
         /\ \A e \in EndpointIdx :
               /\ SameIdentity(e)
               /\ \/ /\ endpoints'[e].used = endpoints[e].used
                     /\ endpoints'[e].matches = endpoints[e].matches
                  \/ /\ ~endpoints[e].used
                     /\ endpoints'[e].used
                     /\ Len(endpoints'[e].matches) = Len(endpoints[e].matches) + 1
                     /\ SubSeq(endpoints'[e].matches, 1, Len(endpoints[e].matches))
                          = endpoints[e].matches
         /\ (/\ pc = "match"
             /\ \A e \in EndpointIdx :
                   ~endpoints[e].used => ~re_search(endpoints[e].regex, text))
              => endpoints' = endpoints
         /\ disk' = disk]_vars

\* the scan finished, some Endpoint was marked, and some file that was read
\* and decoded is recorded by no Endpoint
C10_Witness ==
    /\ ScanFinished
    /\ \E e \in EndpointIdx : endpoints[e].used
    /\ \E f \in 1..Len(files) :
          /\ EntryOf(uiDirs, files[f]).read = "text"
          /\ files[f] \in reads
          /\ \A e \in EndpointIdx :
                endpoints[e].matches # <<relative_to(files[f])>>

=============================================================================
